---- MODULE Spec2Model ----
(***************************************************************************)
(* SERP based clustering app (SERP-base-clustering-app-with-API.py).       *)
(*                                                                         *)
(* The module models main()'s pipeline as a state machine over the program *)
(* position pc, and the pure helpers (clean_excel_data,                    *)
(* clean_search_results, pd.merge(how='left'), ...) as operators.          *)
(*                                                                         *)
(* Conventions                                                             *)
(*   - a string of the program is a sequence of one-character strings;     *)
(*   - a number of the Volume column is kept in tenths (15 is 1.5), so     *)
(*     that astype(int) is a real truncation;                              *)
(*   - a DataFrame is [kind |-> "df", rows |-> <<...>>], Python's None is  *)
(*     [kind |-> "None", rows |-> <<>>];                                   *)
(*   - a links cell is [null |-> FALSE, items |-> <<urls>>] for a list and *)
(*     [null |-> TRUE, items |-> <<>>] for pandas' NaN.                    *)
(***************************************************************************)
EXTENDS Integers, Sequences, FiniteSets, TLC

\* ------------------------------------------------------------------ bounds
\* longest raw keyword drawn for the normalizer
MaxLen == 4
\* most rows of a drawn keyword table
MaxRows == 2
\* most result locations of a drawn result set
MaxLocs == 2
\* most entries of a drawn result document
MaxEntries == 2
\* most rows of a drawn keyword frame / result frame of the merge
MaxRecs == 2
\* number of status checks get_result_set makes before it gives up
PollBudget == 3

\* ------------------------------------------------------------------ values
None == [kind |-> "None", rows |-> <<>>]
DataFrame(rows) == [kind |-> "df", rows |-> rows]

NaNLinks == [null |-> TRUE, items |-> <<>>]
List(items) == [null |-> FALSE, items |-> items]

NanCell == [type |-> "nan", s |-> <<>>, n |-> 0]
StrCell(s) == [type |-> "str", s |-> s, n |-> 0]
NumCell(n) == [type |-> "num", s |-> <<>>, n |-> n]

NoFile == [kind |-> "None", columns |-> {}, rows |-> <<>>]
File(columns, rows) == [kind |-> "file", columns |-> columns, rows |-> rows]

\* what a call gives back: the exception it raised ("" when it returned),
\* the value it returned, and what it showed to the operator on the way
Returned(value, msgs) == [raised |-> "", value |-> value, msgs |-> msgs]
Raised(exc, msgs) == [raised |-> exc, value |-> None, msgs |-> msgs]

Msg(level, about) == [level |-> level, about |-> about]

\* ------------------------------------------------------------------ clean_excel_data
\* the characters the regex '[^a-zA-Z0-9 ]' leaves in place (sample letters
\* and digits), line 27
Letters == {"a", "b", "n", "w"}
Digits == {"7"}

IsKeptChar(c) == c \in Letters \cup Digits \cup {" "}

\* .str.replace('[^a-zA-Z0-9 ]', '', regex=True)
StripQuery(s) == SelectSeq(s, IsKeptChar)

\* .astype(str): a missing keyword becomes the string 'nan'
AsStr(cell) == IF cell.type = "nan" THEN <<"n", "a", "n">> ELSE cell.s

\* .fillna(0)
FillNa(cell) == IF cell.type = "nan" THEN NumCell(0) ELSE cell

\* .astype(int) of a number kept in tenths: truncation towards zero
AsInt(t) == IF t >= 0 THEN (t \div 10) * 10 ELSE -(((-t) \div 10) * 10)

\* terms_df[[keyword_column, 'Volume']].rename(columns={keyword_column: 'query'})
SelectRename(rows, keyword_column) ==
    [i \in 1..Len(rows) |->
        [query |-> rows[i][keyword_column], Volume |-> rows[i]["Volume"]]]

\* new_df[new_df['query_length'] > 3]
KeepRow_Mut(r) == r.query_length >= 3

KeepRow(r) == r.query_length > 3

\* lines 26-30 with query_length taken from the raw keyword, before line 27
NormalizeRows_Mut(rows) ==
    LET withLen == [i \in 1..Len(rows) |->
                      [query |-> StripQuery(AsStr(rows[i].query)),
                       Volume |-> AsInt(FillNa(rows[i].Volume).n),
                       query_length |-> Len(AsStr(rows[i].query))]]
        kept == SelectSeq(withLen, KeepRow)
    IN  [i \in 1..Len(kept) |-> [query |-> kept[i].query, Volume |-> kept[i].Volume]]

\* lines 26-30: Volume to int, query stripped, query_length, filter, drop
NormalizeRows(rows) ==
    LET volumes == [i \in 1..Len(rows) |->
                      [query |-> rows[i].query,
                       Volume |-> AsInt(FillNa(rows[i].Volume).n)]]
        stripped == [i \in 1..Len(volumes) |->
                      [query |-> StripQuery(AsStr(volumes[i].query)),
                       Volume |-> volumes[i].Volume]]
        withLen == [i \in 1..Len(stripped) |->
                      [query |-> stripped[i].query,
                       Volume |-> stripped[i].Volume,
                       query_length |-> Len(stripped[i].query)]]
        kept == SelectSeq(withLen, KeepRow)
    IN  [i \in 1..Len(kept) |-> [query |-> kept[i].query, Volume |-> kept[i].Volume]]

\* clean_excel_data(uploaded_file, keyword_column); eof: the read finds no
\* data (pd.errors.EmptyDataError)
clean_excel_data(uploaded_file, keyword_column, eof) ==
    IF uploaded_file.kind = "None" THEN Returned(None, <<>>)
    ELSE IF eof THEN Returned(None, <<Msg("error", "empty file")>>)
    ELSE IF keyword_column \notin uploaded_file.columns
         THEN Returned(None, <<Msg("error", "no keyword column")>>)
    ELSE IF "Volume" \notin uploaded_file.columns THEN Raised("KeyError", <<>>)
    ELSE IF \E i \in 1..Len(uploaded_file.rows) :
                uploaded_file.rows[i]["Volume"].type = "str"
         THEN Raised("ValueError", <<>>)
    ELSE Returned(DataFrame(NormalizeRows(
                     SelectRename(uploaded_file.rows, keyword_column))), <<>>)

\* a returned frame read back as a table with the columns query and Volume
AsFile(df) ==
    File({"query", "Volume"},
         [i \in 1..Len(df.rows) |->
             [query |-> StrCell(df.rows[i].query), Volume |-> NumCell(df.rows[i].Volume)]])

\* ------------------------------------------------------------------ create_batch, start_batch
\* an HTTP answer: status and body; a body is "batch" (JSON holding
\* batch.id), "json" (JSON without it) or "html" (not JSON)
Response(status, body) == [status |-> status, body |-> body]

Is2xx(status) == status >= 200 /\ status < 300

\* create_batch, lines 47-50: no look at the status; .json() raises on a body
\* that is not JSON, ['batch']['id'] raises on a body without the key
create_batch(resp) ==
    IF resp.body = "html" THEN [raised |-> "JSONDecodeError", value |-> "unset"]
    ELSE IF resp.body # "batch" THEN [raised |-> "KeyError", value |-> "unset"]
    ELSE [raised |-> "", value |-> "b1"]

\* start_batch, lines 53-57: the parsed body is returned whatever the status
start_batch(resp) ==
    IF resp.body = "html" THEN [raised |-> "JSONDecodeError", value |-> ""]
    ELSE [raised |-> "", value |-> resp.body]

\* enqueueQueries of the BatchClient: Result<(), ApiError>
add_search_queries(resp) ==
    IF Is2xx(resp.status) THEN [raised |-> "", value |-> ""]
    ELSE [raised |-> "ApiError", value |-> ""]

\* ------------------------------------------------------------------ get_search_results, clean_search_results
\* a result location is modelled by what fetching it answers:
\* [status, doc], doc a sequence of entries
\*   [q |-> query, has_organic |-> BOOLEAN, organic |-> <<items>>],
\* an item being [has_link |-> BOOLEAN, link |-> url]
Location(status, doc) == [status |-> status, doc |-> doc]

\* get_search_results, lines 60-66: the document on 200, else st.error and
\* (falling off the end) None
get_search_results(json_url) ==
    IF json_url.status = 200
    THEN [isNone |-> FALSE, doc |-> json_url.doc, msgs |-> <<>>]
    ELSE [isNone |-> TRUE, doc |-> <<>>, msgs |-> <<Msg("error", "fetch")>>]

\* lines 80-85: the list comprehension raises KeyError when organic_results
\* is absent, and also when an item has no 'link'
LinksRaise(each) ==
    \/ ~each.has_organic
    \/ \E k \in 1..Len(each.organic) : ~each.organic[k].has_link

ExtractLinks(each) ==
    IF LinksRaise(each)
    THEN [links |-> List(<<>>), msgs |-> <<Msg("warning", each.q)>>]
    ELSE [links |-> List([k \in 1..Len(each.organic) |-> each.organic[k].link]),
          msgs |-> <<>>]

\* the inner loop, lines 76-85: acc is [query_list, links_list, msgs]
RECURSIVE CollectEntries(_, _)
CollectEntries(doc, acc) ==
    IF doc = <<>> THEN acc
    ELSE LET e == ExtractLinks(Head(doc))
         IN  CollectEntries(Tail(doc),
                 [query_list |-> Append(acc.query_list, Head(doc).q),
                  links_list |-> Append(acc.links_list, e.links),
                  msgs |-> acc.msgs \o e.msgs])

\* the outer loop, lines 73-76: iterating over None raises TypeError
RECURSIVE CollectLocations(_, _)
CollectLocations(result_set, acc) ==
    IF result_set = <<>>
    THEN Returned(DataFrame([i \in 1..Len(acc.query_list) |->
                     [query |-> acc.query_list[i], links |-> acc.links_list[i]]]),
                  acc.msgs)
    ELSE LET response_json == get_search_results(Head(result_set))
             seen == [acc EXCEPT !.msgs = acc.msgs \o response_json.msgs]
         IN  IF response_json.isNone
             THEN Raised("TypeError", seen.msgs)
             ELSE CollectLocations(Tail(result_set),
                                   CollectEntries(response_json.doc, seen))

\* clean_search_results, lines 69-90
clean_search_results(result_set) ==
    CollectLocations(result_set,
                     [query_list |-> <<>>, links_list |-> <<>>, msgs |-> <<>>])

\* ------------------------------------------------------------------ pd.merge(how='left', on='query')
\* the right rows of one left row, in the right frame's order; a left row
\* without any gets one output row whose links is NaN
MergeRow(k, right) ==
    LET m == SelectSeq(right, LAMBDA r : r.query = k.query)
    IN  IF m = <<>>
        THEN <<[query |-> k.query, Volume |-> k.Volume, links |-> NaNLinks]>>
        ELSE [i \in 1..Len(m) |->
                [query |-> k.query, Volume |-> k.Volume, links |-> m[i].links]]

RECURSIVE pd_merge(_, _)
pd_merge(left, right) ==
    IF left = <<>> THEN <<>>
    ELSE MergeRow(Head(left), right) \o pd_merge(Tail(left), right)

\* .rename(columns={'query': 'Keyword', 'impressions': 'Volume', 'links': 'URLs'})
Rename(rows) ==
    [i \in 1..Len(rows) |->
        [Keyword |-> rows[i].query, Volume |-> rows[i].Volume, URLs |-> rows[i].links]]

\* ------------------------------------------------------------------ get_clusters_from_api
\* lines 104-111; st_error_raises: st.error("Error:", status) is a call with
\* two positional arguments, which st.error(body) rejects with TypeError
get_clusters_from_api(serp_df, resp, st_error_raises) ==
    IF resp.status = 200
    THEN IF resp.body = "html" THEN Raised("JSONDecodeError", <<>>)
         ELSE Returned(DataFrame(<<[Cluster |-> "c1", Size |-> Len(serp_df.rows)]>>), <<>>)
    ELSE IF st_error_raises THEN Raised("TypeError", <<>>)
         ELSE Returned(None, <<Msg("error", "cluster")>>)

\* ------------------------------------------------------------------ state
VARIABLES
    pc,                \* position in main(): "L<line>", "polling", "done", "aborted"
    trace,             \* pipeline steps invoked since "Start Processing" (line 136)
    uploaded_file,     \* the uploaded keyword table
    cleaned_df,        \* line 138
    renorm,            \* clean_excel_data applied to its own output
    create_resp,       \* what the batch service answered to POST /batches
    batch_id,          \* line 148
    batch_status,      \* the remote batch: Created, Queued, Running, Completed, Failed
    polls,             \* status checks made by get_result_set
    result_set,        \* line 160
    cleaned_results,   \* line 163
    merged_df,         \* lines 166-167
    clusters_df_cloud, \* line 169
    rendered,          \* the cluster table and the treemap were drawn (lines 172-179)
    surfaced,          \* an error message or an exception was shown to the operator
    raised,            \* the exception that ended the run, "" when none
    fatal,             \* first step whose outcome is a fatal error of section 7
    messages           \* st.error / st.warning calls, in order

vars == <<pc, trace, uploaded_file, cleaned_df, renorm, create_resp, batch_id,
          batch_status, polls, result_set, cleaned_results, merged_df,
          clusters_df_cloud, rendered, surfaced, raised, fatal, messages>>

\* ------------------------------------------------------------------ main(): control flow
\* the statement after the one at a label, lines 129-179
NextLabel_Mut(label) ==
    CASE label = "L129" -> "L136"
      [] label = "L136" -> "L138"
      [] label = "L138" -> "L147"
      [] label = "L147" -> "L148"
      [] label = "L148" -> "L156"
      [] label = "L156" -> "L152"
      [] label = "L152" -> "L160"
      [] label = "L160" -> "L163"
      [] label = "L163" -> "L166"
      [] label = "L166" -> "L169"
      [] label = "L169" -> "L171"
      [] OTHER -> "done"

NextLabel(label) ==
    CASE label = "L129" -> "L136"
      [] label = "L136" -> "L138"
      [] label = "L138" -> "L147"
      [] label = "L147" -> "L148"
      [] label = "L148" -> "L152"
      [] label = "L152" -> "L156"
      [] label = "L156" -> "L160"
      [] label = "L160" -> "L163"
      [] label = "L163" -> "L166"
      [] label = "L166" -> "L169"
      [] label = "L169" -> "L171"
      [] OTHER -> "done"

\* where main() goes when the call at a label raises: there is no try/except
\* in main(), the exception leaves it and Streamlit shows it
OnRaise_Mut(label) == NextLabel(label)

OnRaise(label) == "aborted"

\* the first fatal error of the run is kept
FirstFatal(isFatal, step) == IF fatal = "none" /\ isFatal THEN step ELSE fatal

\* ApiError of the batch and clustering services: a non-2xx answer, or a
\* body that is not the expected JSON
IsApiError(resp, needsBatchId) ==
    \/ ~Is2xx(resp.status)
    \/ resp.body = "html"
    \/ needsBatchId /\ resp.body # "batch"

\* ------------------------------------------------------------------ inputs
KeywordColumn == "Keyword"

\* sample keywords: "ab!ab" -> "abab", "w7 w" kept, "ab" dropped
KwA == <<"a", "b", "!", "a", "b">>
KwB == <<"w", "7", " ", "w">>
KwC == <<"a", "b">>
QA == <<"a", "b", "a", "b">>
QB == <<"w", "7", " ", "w">>
QX == <<"n", "a", "a", "n">>

KwRow(kw, vol) == [Keyword |-> StrCell(kw), Volume |-> vol]

SampleFiles ==
    { File({"Keyword", "Volume"},
           <<KwRow(KwA, NumCell(15)), KwRow(KwB, NanCell), KwRow(KwC, NumCell(20))>>),
      File({"Keyword", "Volume"}, <<KwRow(KwA, NumCell(10))>>),
      File({"Keyword", "Volume"}, <<KwRow(KwA, StrCell(<<"7", "w">>))>>),
      File({"Keyword"}, <<[Keyword |-> StrCell(KwA)]>>) }

HttpStatuses == {200, 500}
CreateResponses == {Response(st, b) : st \in HttpStatuses, b \in {"batch", "json", "html"}}
StartResponses == {Response(st, b) : st \in HttpStatuses, b \in {"json", "html"}}
EnqueueResponses == {Response(st, "json") : st \in HttpStatuses}
ClusterResponses == {Response(st, b) : st \in HttpStatuses, b \in {"json", "html"}}

Item(url) == [has_link |-> TRUE, link |-> url]
ItemNoLink == [has_link |-> FALSE, link |-> ""]
Entry(q, organic) == [q |-> q, has_organic |-> TRUE, organic |-> organic]
EntryNoOrganic(q) == [q |-> q, has_organic |-> FALSE, organic |-> <<>>]

SampleResultSets ==
    { <<>>,
      <<Location(200, <<Entry(QA, <<Item("u1"), Item("u2")>>), Entry(QB, <<Item("u3")>>)>>)>>,
      <<Location(200, <<EntryNoOrganic(QA)>>)>>,
      <<Location(200, <<Entry(QA, <<Item("u1"), ItemNoLink>>)>>),
        Location(200, <<Entry(QB, <<>>)>>)>>,
      <<Location(500, <<>>), Location(200, <<Entry(QA, <<Item("u1")>>)>>)>>,
      <<Location(200, <<Entry(QA, <<Item("u1")>>)>>),
        Location(200, <<Entry(QA, <<Item("u2")>>), Entry(QX, <<Item("u1")>>)>>)>> }

SeqsUpTo(S, n) == UNION {[1..k -> S] : k \in 0..n}

\* ------------------------------------------------------------------ main(): the steps
\* the run ends on an exception raised by the call at label: nothing of main()
\* catches it, Streamlit shows it
Abort(label, exc) ==
    /\ pc' = OnRaise(label)
    /\ raised' = exc
    /\ surfaced' = TRUE

Show(msgs) ==
    /\ messages' = messages \o msgs
    /\ surfaced' = (surfaced \/ \E i \in 1..Len(msgs) : msgs[i].level = "error")

\* line 129-131: the preview; df None ends the script run
Preview ==
    /\ pc = "L129"
    /\ \E eof \in BOOLEAN :
         LET r == clean_excel_data(uploaded_file, KeywordColumn, eof)
         IN  IF r.raised # ""
             THEN Abort("L129", r.raised) /\ UNCHANGED messages
             ELSE /\ Show(r.msgs)
                  /\ pc' = IF r.value.kind = "None" THEN "done" ELSE NextLabel("L129")
                  /\ UNCHANGED raised
    /\ UNCHANGED <<trace, uploaded_file, cleaned_df, renorm, create_resp, batch_id,
                   batch_status, polls, result_set, cleaned_results, merged_df,
                   clusters_df_cloud, rendered, fatal>>

\* line 136: st.button("Start Processing")
Button136 ==
    /\ pc = "L136"
    /\ \E pressed \in BOOLEAN :
         pc' = IF pressed THEN NextLabel("L136") ELSE "done"
    /\ trace' = <<>>
    /\ UNCHANGED <<uploaded_file, cleaned_df, renorm, create_resp, batch_id,
                   batch_status, polls, result_set, cleaned_results, merged_df,
                   clusters_df_cloud, rendered, surfaced, raised, fatal, messages>>

\* lines 138-141: cleaned_df.head() raises AttributeError on None
Clean138 ==
    /\ pc = "L138"
    /\ trace' = Append(trace, "clean_excel_data")
    /\ \E eof \in BOOLEAN :
         LET r == clean_excel_data(uploaded_file, KeywordColumn, eof)
         IN  /\ fatal' = FirstFatal(r.raised # "" \/ r.value.kind = "None",
                                    "clean_excel_data")
             /\ IF r.raised # ""
                THEN /\ Abort("L138", r.raised)
                     /\ UNCHANGED <<messages, cleaned_df>>
                ELSE /\ cleaned_df' = r.value
                     /\ messages' = messages \o r.msgs
                     /\ IF r.value.kind = "None"
                        THEN Abort("L138", "AttributeError")
                        ELSE pc' = NextLabel("L138") /\ UNCHANGED <<raised, surfaced>>
    /\ UNCHANGED <<uploaded_file, renorm, create_resp, batch_id, batch_status, polls,
                   result_set, cleaned_results, merged_df, clusters_df_cloud, rendered>>

\* line 147: the second st.button("Start Processing")
Button147 ==
    /\ pc = "L147"
    /\ \E pressed \in BOOLEAN :
         pc' = IF pressed THEN NextLabel("L147") ELSE "done"
    /\ UNCHANGED <<trace, uploaded_file, cleaned_df, renorm, create_resp, batch_id,
                   batch_status, polls, result_set, cleaned_results, merged_df,
                   clusters_df_cloud, rendered, surfaced, raised, fatal, messages>>

\* lines 148-150
CreateBatch ==
    /\ pc = "L148"
    /\ trace' = Append(trace, "create_batch")
    /\ \E resp \in CreateResponses :
         LET r == create_batch(resp)
         IN  /\ create_resp' = resp
             /\ fatal' = FirstFatal(IsApiError(resp, TRUE), "create_batch")
             /\ IF r.raised # ""
                THEN /\ Abort("L148", r.raised)
                     /\ UNCHANGED <<batch_id, batch_status>>
                ELSE /\ batch_id' = r.value
                     /\ batch_status' = "Created"
                     /\ pc' = NextLabel("L148")
                     /\ UNCHANGED <<raised, surfaced>>
    /\ UNCHANGED <<uploaded_file, cleaned_df, renorm, polls, result_set, cleaned_results,
                   merged_df, clusters_df_cloud, rendered, messages>>

\* lines 152-154
AddSearchQueries ==
    /\ pc = "L152"
    /\ trace' = Append(trace, "add_search_queries")
    /\ \E resp \in EnqueueResponses :
         LET r == add_search_queries(resp)
         IN  /\ fatal' = FirstFatal(r.raised # "", "add_search_queries")
             /\ IF r.raised # ""
                THEN Abort("L152", r.raised) /\ UNCHANGED batch_status
                ELSE /\ batch_status' = "Queued"
                     /\ pc' = NextLabel("L152")
                     /\ UNCHANGED <<raised, surfaced>>
    /\ UNCHANGED <<uploaded_file, cleaned_df, renorm, create_resp, batch_id, polls,
                   result_set, cleaned_results, merged_df, clusters_df_cloud, rendered,
                   messages>>

\* lines 156-158: the value start_batch returns is dropped
StartBatch ==
    /\ pc = "L156"
    /\ trace' = Append(trace, "start_batch")
    /\ \E resp \in StartResponses :
         LET r == start_batch(resp)
         IN  /\ fatal' = FirstFatal(IsApiError(resp, FALSE), "start_batch")
             /\ batch_status' = IF Is2xx(resp.status) /\ batch_status \in {"Created", "Queued"}
                                THEN "Running" ELSE batch_status
             /\ IF r.raised # ""
                THEN Abort("L156", r.raised)
                ELSE pc' = NextLabel("L156") /\ UNCHANGED <<raised, surfaced>>
    /\ UNCHANGED <<uploaded_file, cleaned_df, renorm, create_resp, batch_id, polls,
                   result_set, cleaned_results, merged_df, clusters_df_cloud, rendered,
                   messages>>

\* line 160: the call of get_result_set
CallGetResultSet ==
    /\ pc = "L160"
    /\ trace' = Append(trace, "get_result_set")
    /\ polls' = 0
    /\ pc' = "polling"
    /\ UNCHANGED <<uploaded_file, cleaned_df, renorm, create_resp, batch_id, batch_status,
                   result_set, cleaned_results, merged_df, clusters_df_cloud, rendered,
                   surfaced, raised, fatal, messages>>

\* the remote batch finishes or fails while it is Running
RemoteProgress ==
    /\ pc \in {"L160", "polling"}
    /\ batch_status = "Running"
    /\ \E s \in {"Completed", "Failed"} : batch_status' = s
    /\ UNCHANGED <<pc, trace, uploaded_file, cleaned_df, renorm, create_resp, batch_id,
                   polls, result_set, cleaned_results, merged_df, clusters_df_cloud,
                   rendered, surfaced, raised, fatal, messages>>

\* get_result_set, one status check: Completed returns the result locations,
\* Failed is fatal, anything else waits and checks again
Poll ==
    /\ pc = "polling"
    /\ polls < PollBudget
    /\ IF batch_status = "Completed"
       THEN /\ \E rs \in SampleResultSets : result_set' = rs
            /\ pc' = NextLabel("L160")
            /\ UNCHANGED <<polls, raised, surfaced, fatal>>
       ELSE IF batch_status = "Failed"
       THEN /\ Abort("L160", "BatchFailedError")
            /\ fatal' = FirstFatal(TRUE, "get_result_set")
            /\ UNCHANGED <<polls, result_set>>
       ELSE /\ polls' = polls + 1
            /\ UNCHANGED <<pc, result_set, raised, surfaced, fatal>>
    /\ UNCHANGED <<trace, uploaded_file, cleaned_df, renorm, create_resp, batch_id,
                   batch_status, cleaned_results, merged_df, clusters_df_cloud, rendered,
                   messages>>

\* get_result_set, the budget is spent: BatchTimeoutError
PollTimeout ==
    /\ pc = "polling"
    /\ polls >= PollBudget
    /\ Abort("L160", "BatchTimeoutError")
    /\ fatal' = FirstFatal(TRUE, "get_result_set")
    /\ UNCHANGED <<trace, uploaded_file, cleaned_df, renorm, create_resp, batch_id,
                   batch_status, polls, result_set, cleaned_results, merged_df,
                   clusters_df_cloud, rendered, messages>>

\* lines 163-164
Collect ==
    /\ pc = "L163"
    /\ trace' = Append(trace, "clean_search_results")
    /\ LET r == clean_search_results(result_set)
       IN  /\ fatal' = FirstFatal(r.raised # "", "clean_search_results")
           /\ messages' = messages \o r.msgs
           /\ IF r.raised # ""
              THEN Abort("L163", r.raised) /\ UNCHANGED cleaned_results
              ELSE /\ cleaned_results' = r.value
                   /\ pc' = NextLabel("L163")
                   /\ surfaced' = (surfaced \/ \E i \in 1..Len(r.msgs) :
                                                   r.msgs[i].level = "error")
                   /\ UNCHANGED raised
    /\ UNCHANGED <<uploaded_file, cleaned_df, renorm, create_resp, batch_id, batch_status,
                   polls, result_set, merged_df, clusters_df_cloud, rendered>>

\* lines 166-167
Merge ==
    /\ pc = "L166"
    /\ trace' = Append(trace, "merge")
    /\ merged_df' = DataFrame(Rename(pd_merge(cleaned_df.rows, cleaned_results.rows)))
    /\ pc' = NextLabel("L166")
    /\ UNCHANGED <<uploaded_file, cleaned_df, renorm, create_resp, batch_id, batch_status,
                   polls, result_set, cleaned_results, clusters_df_cloud, rendered,
                   surfaced, raised, fatal, messages>>

\* line 169
Cluster ==
    /\ pc = "L169"
    /\ trace' = Append(trace, "get_clusters_from_api")
    /\ \E resp \in ClusterResponses, st_error_raises \in BOOLEAN :
         LET r == get_clusters_from_api(merged_df, resp, st_error_raises)
         IN  /\ fatal' = FirstFatal(IsApiError(resp, FALSE), "get_clusters_from_api")
             /\ IF r.raised # ""
                THEN /\ Abort("L169", r.raised)
                     /\ UNCHANGED <<clusters_df_cloud, messages>>
                ELSE /\ clusters_df_cloud' = r.value
                     /\ Show(r.msgs)
                     /\ pc' = NextLabel("L169")
                     /\ UNCHANGED raised
    /\ UNCHANGED <<uploaded_file, cleaned_df, renorm, create_resp, batch_id, batch_status,
                   polls, result_set, cleaned_results, merged_df, rendered>>

\* lines 171-179
Render ==
    /\ pc = "L171"
    /\ rendered' = (clusters_df_cloud.kind # "None")
    /\ pc' = NextLabel("L171")
    /\ UNCHANGED <<trace, uploaded_file, cleaned_df, renorm, create_resp, batch_id,
                   batch_status, polls, result_set, cleaned_results, merged_df,
                   clusters_df_cloud, surfaced, raised, fatal, messages>>

\* ------------------------------------------------------------------ specification of main()
Blank ==
    /\ trace = <<>>
    /\ cleaned_df = None
    /\ renorm = Returned(None, <<>>)
    /\ create_resp = Response(0, "")
    /\ batch_id = "unset"
    /\ batch_status = "None"
    /\ polls = 0
    /\ result_set = <<>>
    /\ cleaned_results = None
    /\ merged_df = None
    /\ clusters_df_cloud = None
    /\ rendered = FALSE
    /\ surfaced = FALSE
    /\ raised = ""
    /\ fatal = "none"
    /\ messages = <<>>

\* lines 118-128 passed: key entered, file uploaded, column selected
Init ==
    /\ pc = "L129"
    /\ uploaded_file \in SampleFiles
    /\ Blank

Next ==
    \/ Preview
    \/ Button136
    \/ Clean138
    \/ Button147
    \/ CreateBatch
    \/ AddSearchQueries
    \/ StartBatch
    \/ CallGetResultSet
    \/ RemoteProgress
    \/ Poll
    \/ PollTimeout
    \/ Collect
    \/ Merge
    \/ Cluster
    \/ Render

Spec == Init /\ [][Next]_vars

\* get_result_set runs on the one thread of the run: its loop keeps going
FairSpec == Spec /\ WF_vars(Poll) /\ WF_vars(PollTimeout)

\* ------------------------------------------------------------------ clean_excel_data on drawn tables
\* raw keywords: every string of a kept and a removed character up to MaxLen,
\* and the missing keyword; volumes: missing, and 1.5
Chars == {"a", "!"}
KeywordCells == {StrCell(s) : s \in SeqsUpTo(Chars, MaxLen)} \cup {NanCell}
VolumeCells == {NanCell, NumCell(15)}
DrawnRows == [Keyword : KeywordCells, Volume : VolumeCells]

\* a table of up to MaxRows drawn rows
InitNorm ==
    /\ pc = "norm"
    /\ \E k \in 0..MaxRows : \E rows \in [1..k -> DrawnRows] :
          uploaded_file = File({"Keyword", "Volume"}, rows)
    /\ Blank

\* clean_excel_data(uploaded_file, keyword_column)
Normalize ==
    /\ pc = "norm"
    /\ cleaned_df' = clean_excel_data(uploaded_file, KeywordColumn, FALSE).value
    /\ pc' = "normalized"
    /\ UNCHANGED <<trace, uploaded_file, renorm, create_resp, batch_id, batch_status,
                   polls, result_set, cleaned_results, merged_df, clusters_df_cloud,
                   rendered, surfaced, raised, fatal, messages>>

\* clean_excel_data applied to the table it returned
Renormalize ==
    /\ pc = "normalized"
    /\ renorm' = clean_excel_data(AsFile(cleaned_df), "query", FALSE)
    /\ pc' = "renormed"
    /\ UNCHANGED <<trace, uploaded_file, cleaned_df, create_resp, batch_id, batch_status,
                   polls, result_set, cleaned_results, merged_df, clusters_df_cloud,
                   rendered, surfaced, raised, fatal, messages>>

NextNorm ==
    \/ Normalize
    \/ Renormalize

SpecNorm == InitNorm /\ [][NextNorm]_vars

\* ------------------------------------------------------------------ clean_search_results on drawn result sets
PipelineOrder ==
    <<"clean_excel_data", "create_batch", "add_search_queries", "start_batch",
      "get_result_set", "clean_search_results", "merge", "get_clusters_from_api">>

DrawnEntries ==
    {EntryNoOrganic(q) : q \in {QA, QB}}
        \cup {Entry(q, org) : q \in {QA, QB}, org \in {<<Item("u1")>>, <<ItemNoLink>>}}
DrawnLocations ==
    {Location(200, doc) : doc \in SeqsUpTo(DrawnEntries, MaxEntries)}
        \cup {Location(500, <<>>)}
DrawnResultSets == SeqsUpTo(DrawnLocations, MaxLocs)

\* main() at line 163, get_result_set has returned
InitCollect ==
    /\ pc = "L163"
    /\ trace = SubSeq(PipelineOrder, 1, 5)
    /\ uploaded_file \in {File({"Keyword", "Volume"}, <<KwRow(QA, NumCell(10))>>)}
    /\ cleaned_df = DataFrame(<<[query |-> QA, Volume |-> 10]>>)
    /\ renorm = Returned(None, <<>>)
    /\ create_resp = Response(200, "batch")
    /\ batch_id = "b1"
    /\ batch_status = "Completed"
    /\ polls = 0
    /\ result_set \in DrawnResultSets
    /\ cleaned_results = None
    /\ merged_df = None
    /\ clusters_df_cloud = None
    /\ rendered = FALSE
    /\ surfaced = FALSE
    /\ raised = ""
    /\ fatal = "none"
    /\ messages = <<>>

NextCollect ==
    \/ Collect

SpecCollect == InitCollect /\ [][NextCollect]_vars

\* ------------------------------------------------------------------ the merge on drawn frames
DrawnKeywordRows == [query : {QA, QB}, Volume : {0, 10}]
DrawnResultRows == [query : {QA, QB, QX}, links : {List(<<>>), List(<<"u1">>)}]

\* main() at line 166, clean_search_results has returned
InitMerge ==
    /\ pc = "L166"
    /\ trace = SubSeq(PipelineOrder, 1, 6)
    /\ uploaded_file = NoFile
    /\ cleaned_df \in {DataFrame(k) : k \in SeqsUpTo(DrawnKeywordRows, MaxRecs)}
    /\ renorm = Returned(None, <<>>)
    /\ create_resp = Response(200, "batch")
    /\ batch_id = "b1"
    /\ batch_status = "Completed"
    /\ polls = 0
    /\ result_set = <<>>
    /\ cleaned_results \in {DataFrame(r) : r \in SeqsUpTo(DrawnResultRows, MaxRecs)}
    /\ merged_df = None
    /\ clusters_df_cloud = None
    /\ rendered = FALSE
    /\ surfaced = FALSE
    /\ raised = ""
    /\ fatal = "none"
    /\ messages = <<>>

NextMerge ==
    \/ Merge

SpecMerge == InitMerge /\ [][NextMerge]_vars

\* ------------------------------------------------------------------ properties
IsPrefix(s, t) == Len(s) <= Len(t) /\ \A i \in 1..Len(s) : s[i] = t[i]

Called(step) == \E i \in 1..Len(trace) : trace[i] = step

LastCalled == IF trace = <<>> THEN "" ELSE trace[Len(trace)]

\* C1: in every run the steps invoked since "Start Processing" are an initial
\* part of normalize, createBatch, enqueueQueries, startBatch, get_result_set,
\* collect, merge, cluster: each at most once, each after its predecessor,
\* enqueueQueries before startBatch, merge before cluster.
StepsInOrder == IsPrefix(trace, PipelineOrder)

\* a run that went through all eight steps and drew the clusters
StepsInOrderWitness == pc = "done" /\ trace = PipelineOrder /\ rendered

\* C2: once a step has ended in a fatal error, it is the last step invoked,
\* the error was shown to the operator, and nothing is rendered.
FatalErrorAborts ==
    fatal # "none" => LastCalled = fatal /\ surfaced /\ ~rendered

\* the state part of C3
TimeoutAborts ==
    /\ polls <= PollBudget
    /\ raised = "BatchTimeoutError"
         => pc = "aborted" /\ ~Called("get_clusters_from_api") /\ ~rendered

\* the step part of C3: leaving the loop with the budget spent is a timeout
BudgetSpentStep ==
    (pc = "polling" /\ polls = PollBudget /\ pc' # "polling")
        => raised' = "BatchTimeoutError"

RECURSIVE FetchedEntries(_)
FetchedEntries(rs) ==
    IF rs = <<>> THEN <<>>
    ELSE (IF Head(rs).status = 200 THEN Head(rs).doc ELSE <<>>) \o FetchedEntries(Tail(rs))

\* the collector came to an entry without organic_results
ReachedEntryWithoutLinks ==
    \E i \in 1..Len(result_set) :
        /\ \A j \in 1..i : result_set[j].status = 200
        /\ \E k \in 1..Len(result_set[i].doc) : ~result_set[i].doc[k].has_organic

Shown(m) == \E i \in 1..Len(messages) : messages[i] = m

\* C4: when clean_search_results has come to an entry without
\* organic_results, it returns normally with one record per entry of every
\* document, in order, the record of each such entry having links = [] and a
\* warning naming its query.
MissingLinksTolerated ==
    (pc # "L163" /\ ReachedEntryWithoutLinks) =>
        /\ raised = ""
        /\ LET es == FetchedEntries(result_set)
           IN  /\ Len(cleaned_results.rows) = Len(es)
               /\ \A n \in 1..Len(es) :
                     /\ cleaned_results.rows[n].query = es[n].q
                     /\ ~es[n].has_organic =>
                           /\ cleaned_results.rows[n].links = List(<<>>)
                           /\ Shown(Msg("warning", es[n].q))

\* C5: when a result location answers with a status other than 200,
\* clean_search_results reports it, returns normally, and returns exactly the
\* records of the locations that answered 200.
FetchFailureNonFatal ==
    (pc # "L163" /\ \E i \in 1..Len(result_set) : result_set[i].status # 200) =>
        /\ raised = ""
        /\ \E i \in 1..Len(messages) : messages[i].about = "fetch"
        /\ LET es == FetchedEntries(result_set)
           IN  /\ Len(cleaned_results.rows) = Len(es)
               /\ \A n \in 1..Len(es) : cleaned_results.rows[n].query = es[n].q

DupFree(rows) ==
    \A i, j \in 1..Len(rows) : i # j => rows[i].query # rows[j].query

\* C6: for a keyword frame K without duplicate queries and any result frame
\* R, the merged frame has |K| rows, every keyword row of K appears exactly
\* once, and every row's query is a query of K.
TrueLeftJoin ==
    (pc = "L169" /\ DupFree(cleaned_df.rows)) =>
        /\ Len(merged_df.rows) = Len(cleaned_df.rows)
        /\ \A i \in 1..Len(cleaned_df.rows) :
              Cardinality({j \in 1..Len(merged_df.rows) :
                              merged_df.rows[j].Keyword = cleaned_df.rows[i].query}) = 1
        /\ \A j \in 1..Len(merged_df.rows) :
              \E i \in 1..Len(cleaned_df.rows) :
                  merged_df.rows[j].Keyword = cleaned_df.rows[i].query

AlnumSpace == Letters \cup Digits \cup {" "}

\* C7: every row clean_excel_data returns has a query of letters, digits and
\* spaces only, longer than 3.
CleanedQueriesValid ==
    \A i \in 1..Len(cleaned_df.rows) :
        /\ Len(cleaned_df.rows[i].query) > 3
        /\ \A k \in 1..Len(cleaned_df.rows[i].query) :
              cleaned_df.rows[i].query[k] \in AlnumSpace

\* of two rows, one whose keyword holds a removed character was dropped and
\* the other was kept
CleanedQueriesValidWitness ==
    /\ pc = "normalized"
    /\ Len(uploaded_file.rows) = 2
    /\ Len(cleaned_df.rows) = 1
    /\ \E i \in 1..2 : \E k \in 1..Len(uploaded_file.rows[i].Keyword.s) :
          uploaded_file.rows[i].Keyword.s[k] = "!"

\* C8: clean_excel_data applied to a table it returned gives back the same
\* rows, with the same query and Volume, in the same order.
NormalizeIdempotent ==
    pc = "renormed" => renorm.raised = "" /\ renorm.value = cleaned_df

\* two different rows came out of the first pass and of the second
NormalizeIdempotentWitness ==
    /\ pc = "renormed"
    /\ Len(cleaned_df.rows) = 2
    /\ cleaned_df.rows[1] # cleaned_df.rows[2]
    /\ uploaded_file.rows[1].Volume = NumCell(15)

\* C9: every record handed to get_clusters_from_api has a list of links,
\* never a null.
LinksNeverNull ==
    Called("get_clusters_from_api") =>
        \A j \in 1..Len(merged_df.rows) : ~merged_df.rows[j].URLs.null

\* C10: create_batch gives a batch id only for a 2xx answer whose body holds
\* batch.id; after any other answer the run stops at create_batch.
CreateFailsOnApiError ==
    /\ batch_id # "unset" => Is2xx(create_resp.status) /\ create_resp.body = "batch"
    /\ (Called("create_batch") /\ IsApiError(create_resp, TRUE))
          => pc = "aborted" /\ LastCalled = "create_batch"

====
